---- MODULE Spec2Model ----
(***************************************************************************)
(* Model of the captioning hooks of src/hooks/useSpeechRecognition.ts:     *)
(*   useCaptions    - recognition event handlers, interim timer, merge of  *)
(*                    short finals, session object and session store;      *)
(*   useNimCaptions - derived enhanced transcript and enhanceCaption.      *)
(* Times are milliseconds (Date.getTime()).  Texts are sequences of        *)
(* one-character strings so that trim / split / replace are computed.      *)
(* A React state variable is modelled by its committed value; a value that *)
(* a handler reads from the closure of an earlier render is a variable of  *)
(* its own (rec.captured, nimClosure).                                     *)
(***************************************************************************)
EXTENDS Integers, Sequences, FiniteSets, TLC

\* ---------------------------------------------------------------- constants
InterimDelay == 120
IdPrefixLen == 20
NimConfidence == 95
DefaultThreshold == 70
MergeWindow == 1500
ShortChars == 8
ShortWords == 2

\* ------------------------------------------------------------------- bounds
MaxTicks == 1
MaxTimerTicks == 4
MaxResults == 3
MaxOptionChanges == 1
MaxNimResults == 2
MaxUserCalls == 2
MaxSettingsChanges == 1
MaxSummaryCalls == 2

Null == [null |-> TRUE]

\* a null reference to a time (no Date, no timer)
NoTime == 0 - 1

\* Time steps the clock may take: one timer period, one merge window, and a
\* step past the merge window.
Delays == {InterimDelay, MergeWindow, MergeWindow + InterimDelay}

\* half a timer period, the step of the clock when the timer is examined
HalfDelay == InterimDelay \div 2

\* Recognizer outputs (result[0].transcript), before trimming.
RawGap == <<" ", "a", " ", " ", "b", " ">>
RawLong == <<"o", "n", "e", " ", "t", "w", "o", " ", "t", "h", "r", "e", "e">>
RawWord == <<"a", "b", "c", "d", "e", "f", "g", "h", "i">>
RawAbc == <<"a", " ", "b", " ", "c">>
RawTexts == {RawGap, RawLong, RawWord, RawAbc}
SessionTexts == {RawGap, RawLong}
TimerTexts == {RawGap, RawLong}
NimTexts == {RawLong}

\* result[0].confidence, in percent.
Confidences == {90}
NimConfidences == {60, 90}

\* ---------------------------------------------------------- string helpers
IsWs(c) == c = " "

RECURSIVE TrimStart(_)
TrimStart(s) ==
  IF s = <<>> THEN s
  ELSE IF IsWs(Head(s)) THEN TrimStart(Tail(s)) ELSE s

RECURSIVE TrimEnd(_)
TrimEnd(s) ==
  IF s = <<>> THEN s
  ELSE IF IsWs(s[Len(s)]) THEN TrimEnd(SubSeq(s, 1, Len(s) - 1)) ELSE s

\* String.prototype.trim
Trim(s) == TrimEnd(TrimStart(s))

\* s.replace(/\s+/g, ' ')
RECURSIVE CollapseWs(_)
CollapseWs(s) ==
  IF s = <<>> THEN <<>>
  ELSE IF IsWs(Head(s)) THEN <<" ">> \o CollapseWs(TrimStart(s))
  ELSE <<Head(s)>> \o CollapseWs(Tail(s))

\* s.split(/\s+/).length : one piece more than there are whitespace runs
SplitLength(s) ==
  Cardinality({i \in 1..Len(s) : IsWs(s[i]) /\ (i = 1 \/ ~IsWs(s[i - 1]))}) + 1

\* `${a} ${b}`.replace(/\s+/g, ' ').trim()
MergeText(a, b) == Trim(CollapseWs(a \o <<" ">> \o b))

\* prev.filter(e => e.isFinal)
Finals(t) == SelectSeq(t, LAMBDA e : e.isFinal)

\* ------------------------------------------------------------------- state
VARIABLES
  now,                \* wall clock, new Date().getTime()
  isListening,        \* useState isListening
  transcript,         \* useState transcript (the live transcript)
  currentSession,     \* useState currentSession, or Null
  store,              \* CaptionStorage: session id -> session
  rec,                \* recognitionRef.current: [state, captured], or Null
  oldEnds,            \* onend closures of replaced recognition objects
  beginTimeRef,       \* beginTimeRef.current, or NoTime
  interimTimerRef,    \* due time of the pending interim timer, or NoTime
  pendingInterimRef,  \* pendingInterimRef.current, or Null
  lastFinalRef,       \* lastFinalRef.current, or Null
  effectRuns,         \* number of runs of the initialising effect
  ticks,              \* number of steps the clock has taken
  results,            \* number of result slots delivered
  lastEvent           \* the handler that ran last and the branch it took

capVars ==
  <<now, isListening, transcript, currentSession, store, rec, oldEnds,
    beginTimeRef, interimTimerRef, pendingInterimRef, lastFinalRef, effectRuns,
    ticks, results, lastEvent>>

\* --------------------------------------------------- CaptionStorage (store)
SaveSession(st, s) ==
  [i \in DOMAIN st \cup {s.id} |-> IF i = s.id THEN s ELSE st[i]]

GetSession(st, id) == IF id \in DOMAIN st THEN st[id] ELSE Null

RemoveSession(st, id) == [i \in DOMAIN st \ {id} |-> st[i]]

\* ------------------------------------------------- recognition.onresult
BaseEntry(raw, conf, isFinal) ==
  [text |-> Trim(raw), timestamp |-> now,
   startTime |-> IF beginTimeRef = NoTime THEN now ELSE beginTimeRef,
   endTime |-> now, confidence |-> conf, isFinal |-> isFinal,
   speaker |-> "User"]

\* variant of shouldMerge: a fragment must be short by characters and by words
ShouldMergeBoth(last, finalEntry) ==
  IF last = Null THEN FALSE
  ELSE LET shortByChars == Len(finalEntry.text) <= ShortChars
           shortByWords == SplitLength(finalEntry.text) <= ShortWords
           closeInTime == finalEntry.startTime - last.endTime <= MergeWindow
       IN (shortByChars /\ shortByWords) /\ closeInTime

\* variant of shouldMerge: closeness in time alone decides
ShouldMergeAnyLength(last, finalEntry) ==
  IF last = Null THEN FALSE
  ELSE finalEntry.startTime - last.endTime <= MergeWindow

ShouldMerge(last, finalEntry) ==
  IF last = Null THEN FALSE
  ELSE LET shortByChars == Len(finalEntry.text) <= ShortChars
           shortByWords == SplitLength(finalEntry.text) <= ShortWords
           closeInTime == finalEntry.startTime - last.endTime <= MergeWindow
       IN (shortByChars \/ shortByWords) /\ closeInTime

\* the updater of the interim timer callback
InterimPublish(prev, interim) == Finals(prev) \o <<interim>>

\* variant of the append updater: prev is kept whole
AppendFinalKeepInterim(prev, finalEntry) == prev \o <<finalEntry>>

\* the updater of the append branch
AppendFinal(prev, finalEntry) == Finals(prev) \o <<finalEntry>>

MergedEntry(last, finalEntry) ==
  [last EXCEPT !.text = MergeText(last.text, finalEntry.text),
               !.endTime = finalEntry.endTime,
               !.timestamp = now,
               !.isFinal = TRUE]

\* the updater of the merge branch
MergeFinal(prev, finalEntry) ==
  LET updated == Finals(prev)
  IN IF updated = <<>> THEN <<finalEntry>>
     ELSE [updated EXCEPT ![Len(updated)] = MergedEntry(updated[Len(updated)], finalEntry)]

\* what the merge branch leaves in lastFinalRef
MergeLastFinal(prev, finalEntry) ==
  LET updated == Finals(prev)
  IN IF updated = <<>> THEN finalEntry
     ELSE MergedEntry(updated[Len(updated)], finalEntry)

\* setCurrentSession(prevSession => ...) of the merge branch
MergedSession(prevSession, finalEntry) ==
  IF prevSession = Null THEN prevSession
  ELSE LET t == prevSession.transcript
           t2 == IF Len(t) > 0
                 THEN [t EXCEPT ![Len(t)] =
                         [t[Len(t)] EXCEPT !.text = MergeText(t[Len(t)].text, finalEntry.text),
                                           !.endTime = finalEntry.endTime]]
                 ELSE <<finalEntry>>
       IN [prevSession EXCEPT !.transcript = t2, !.endTime = now]

\* updatedSession of the append branch, built from the captured session
AppendedSession(captured, finalEntry) ==
  [captured EXCEPT !.transcript = captured.transcript \o <<finalEntry>>,
                   !.endTime = now]

\* variant of the session update: interim results reach the session too
SessionAfterAnyResult(session, captured, entry, merge) ==
  IF captured = Null THEN session
  ELSE IF merge THEN MergedSession(session, entry)
  ELSE AppendedSession(captured, entry)

\* currentSession after one result slot
SessionAfterResult(session, captured, entry, merge) ==
  IF ~entry.isFinal \/ captured = Null THEN session
  ELSE IF merge THEN MergedSession(session, entry)
  ELSE AppendedSession(captured, entry)

\* the store after one result slot
StoreAfterResult(st, session, captured, entry, merge) ==
  IF ~entry.isFinal \/ captured = Null THEN st
  ELSE IF merge
       THEN IF session = Null THEN st ELSE SaveSession(st, MergedSession(session, entry))
       ELSE SaveSession(st, AppendedSession(captured, entry))

\* variant: a final leaves the buffered interim in place
PendingKept(entry) == IF entry.isFinal THEN pendingInterimRef ELSE entry

\* pendingInterimRef after one result slot
PendingAfterResult(entry) == IF entry.isFinal THEN Null ELSE entry

\* variant: every interim result schedules the timer anew
TimerRescheduled(timer, entry) ==
  IF entry.isFinal THEN NoTime ELSE now + InterimDelay

\* interimTimerRef after one result slot
TimerAfterResult(timer, entry) ==
  IF entry.isFinal THEN NoTime
  ELSE IF timer = NoTime THEN now + InterimDelay ELSE timer

\* the live transcript after one result slot
TranscriptAfterResult(prev, entry, merge) ==
  IF ~entry.isFinal THEN prev
  ELSE IF merge THEN MergeFinal(prev, entry)
  ELSE AppendFinal(prev, entry)

\* lastFinalRef after one result slot
LastFinalAfterResult(prev, last, entry, merge) ==
  IF ~entry.isFinal THEN last
  ELSE IF merge THEN MergeLastFinal(prev, entry)
  ELSE entry

\* beginTimeRef after one result slot
BeginTimeAfterResult(begin, entry) == IF entry.isFinal THEN now ELSE begin

\* the result or timer event handled last, "other" after any other handler
Event(op, cancelled) ==
  [op |-> IF op \in {"interim", "append", "merge", "timer", "init"} THEN op ELSE "other",
   cancelled |-> cancelled]

\* recognition.onresult with one result slot
OnResult(raw, conf, isFinal) ==
  /\ rec # Null
  /\ rec.state \in {"running", "stopping"}
  /\ LET entry == BaseEntry(raw, conf, isFinal)
         merge == isFinal /\ ShouldMerge(lastFinalRef, entry)
     IN /\ pendingInterimRef' = PendingAfterResult(entry)
        /\ interimTimerRef' = TimerAfterResult(interimTimerRef, entry)
        /\ transcript' = TranscriptAfterResult(transcript, entry, merge)
        /\ lastFinalRef' = LastFinalAfterResult(transcript, lastFinalRef, entry, merge)
        /\ beginTimeRef' = BeginTimeAfterResult(beginTimeRef, entry)
        /\ currentSession' = SessionAfterResult(currentSession, rec.captured, entry, merge)
        /\ store' = StoreAfterResult(store, currentSession, rec.captured, entry, merge)
        /\ lastEvent' = Event(IF ~isFinal THEN "interim"
                              ELSE IF merge THEN "merge" ELSE "append",
                              isFinal /\ interimTimerRef # NoTime)
  /\ results < MaxResults
  /\ results' = results + 1
  /\ UNCHANGED <<now, ticks, isListening, rec, oldEnds, effectRuns>>

\* the callback of the interim timer
TimerFire ==
  /\ interimTimerRef # NoTime
  /\ now >= interimTimerRef
  /\ interimTimerRef' = NoTime
  /\ transcript' = IF pendingInterimRef = Null THEN transcript
                   ELSE InterimPublish(transcript, pendingInterimRef)
  /\ lastEvent' = Event("timer", FALSE)
  /\ UNCHANGED <<now, ticks, results, isListening, currentSession, store, rec, oldEnds,
                 beginTimeRef, pendingInterimRef, lastFinalRef, effectRuns>>

\* time passes; a due timer runs before the clock moves on
Tick(d, budget) ==
  /\ ticks < budget
  /\ ticks' = ticks + 1
  /\ interimTimerRef = NoTime \/ now + d <= interimTimerRef
  /\ now' = now + d
  /\ UNCHANGED <<results, isListening, transcript, currentSession, store, rec,
                 oldEnds, beginTimeRef, interimTimerRef, pendingInterimRef,
                 lastFinalRef, effectRuns, lastEvent>>

\* ------------------------------------------------- the recognition object
\* recognition.start(): the state of the object afterwards
RecStart(r) == IF r.state = "idle" THEN [r EXCEPT !.state = "starting"] ELSE r

\* recognition.start() throws InvalidStateError unless the object is idle
StartThrows(r) == r.state # "idle"

\* recognition.stop()
RecStop(r) == IF r.state = "idle" THEN r ELSE [r EXCEPT !.state = "stopping"]

\* recognition.onstart
OnStart ==
  /\ rec # Null
  /\ rec.state = "starting"
  /\ rec' = [rec EXCEPT !.state = "running"]
  /\ isListening' = TRUE
  /\ beginTimeRef' = now
  /\ lastEvent' = Event("onstart", FALSE)
  /\ UNCHANGED <<now, ticks, results, transcript, currentSession, store, oldEnds, interimTimerRef,
                 pendingInterimRef, lastFinalRef, effectRuns>>

\* recognition.onend
OnEnd ==
  /\ rec # Null
  /\ rec.state \in {"running", "stopping"}
  /\ rec' = [rec EXCEPT !.state = "idle"]
  /\ isListening' = FALSE
  /\ store' = IF rec.captured # Null THEN SaveSession(store, rec.captured) ELSE store
  /\ lastEvent' = Event("onend", FALSE)
  /\ UNCHANGED <<now, ticks, results, transcript, currentSession, oldEnds, beginTimeRef,
                 interimTimerRef, pendingInterimRef, lastFinalRef, effectRuns>>

\* recognition.onerror; the recognizer ends after an error
OnError(kind) ==
  /\ rec # Null
  /\ rec.state \in {"starting", "running"}
  /\ rec' = [rec EXCEPT !.state = "stopping"]
  /\ isListening' = FALSE
  /\ lastEvent' = Event("onerror", FALSE)
  /\ UNCHANGED <<now, ticks, results, transcript, currentSession, store, oldEnds, beginTimeRef,
                 interimTimerRef, pendingInterimRef, lastFinalRef, effectRuns>>

\* ------------------------------------------------------ useCaptions callbacks
NewSession == [id |-> now, startTime |-> now, endTime |-> now, transcript |-> <<>>]

\* the environments in which startListening does not start the recognition:
\* no secure context, microphone permission denied, a recognition object whose
\* start() throws an error other than InvalidStateError
FailingEnvs == {"insecure", "denied", "start-fails"}

\* startListening; perm is the environment of the call: the microphone
\* permission "granted" or "denied", or "insecure" for a page that is not in
\* a secure context, or "start-fails" for a recognition object whose start()
\* throws an error other than InvalidStateError when it is idle
StartListening(perm) ==
  /\ lastEvent' = Event("start", FALSE)
  /\ IF rec = Null
     THEN UNCHANGED <<isListening, transcript, currentSession, rec>>
     ELSE IF isListening
     THEN UNCHANGED <<isListening, transcript, currentSession, rec>>
     ELSE IF perm \in {"insecure", "denied"}
     THEN UNCHANGED <<isListening, transcript, currentSession, rec>>
     ELSE /\ currentSession' = NewSession
          /\ transcript' = <<>>
          /\ rec' = IF perm = "start-fails" THEN rec ELSE RecStart(rec)
          /\ isListening' = IF StartThrows(rec) THEN TRUE ELSE isListening
  /\ UNCHANGED <<now, ticks, results, store, oldEnds, beginTimeRef, interimTimerRef,
                 pendingInterimRef, lastFinalRef, effectRuns>>

\* stopListening
StopListening ==
  /\ rec' = IF rec # Null /\ isListening THEN RecStop(rec) ELSE rec
  /\ store' = IF currentSession # Null THEN SaveSession(store, currentSession) ELSE store
  /\ lastEvent' = Event("stop", FALSE)
  /\ UNCHANGED <<now, ticks, results, isListening, transcript, currentSession, oldEnds,
                 beginTimeRef, interimTimerRef, pendingInterimRef, lastFinalRef,
                 effectRuns>>

\* pauseListening
PauseListening ==
  /\ rec' = IF rec # Null /\ isListening THEN RecStop(rec) ELSE rec
  /\ isListening' = FALSE
  /\ lastEvent' = Event("pause", FALSE)
  /\ UNCHANGED <<now, ticks, results, transcript, currentSession, store, oldEnds,
                 beginTimeRef, interimTimerRef, pendingInterimRef, lastFinalRef,
                 effectRuns>>

\* resumeListening; an exception of start() is caught and logged
ResumeListening ==
  /\ rec' = IF rec # Null /\ ~isListening THEN RecStart(rec) ELSE rec
  /\ lastEvent' = Event("resume", FALSE)
  /\ UNCHANGED <<now, ticks, results, isListening, transcript, currentSession, store,
                 oldEnds, beginTimeRef, interimTimerRef, pendingInterimRef,
                 lastFinalRef, effectRuns>>

\* clearTranscript
ClearTranscript ==
  /\ transcript' = <<>>
  /\ currentSession' = IF currentSession # Null
                       THEN [currentSession EXCEPT !.transcript = <<>>]
                       ELSE currentSession
  /\ store' = IF currentSession # Null
              THEN SaveSession(store, [currentSession EXCEPT !.transcript = <<>>])
              ELSE store
  /\ lastEvent' = Event("clear", FALSE)
  /\ UNCHANGED <<now, ticks, results, isListening, rec, oldEnds, beginTimeRef,
                 interimTimerRef, pendingInterimRef, lastFinalRef, effectRuns>>

\* loadSession
LoadSession(id) ==
  /\ LET session == GetSession(store, id)
     IN IF session # Null
        THEN /\ currentSession' = session
             /\ transcript' = session.transcript
        ELSE UNCHANGED <<currentSession, transcript>>
  /\ lastEvent' = Event("load", FALSE)
  /\ UNCHANGED <<now, ticks, results, isListening, store, rec, oldEnds, beginTimeRef,
                 interimTimerRef, pendingInterimRef, lastFinalRef, effectRuns>>

\* deleteSession, a variant that leaves the active session alone
DeleteFromStoreOnly(id) ==
  /\ store' = RemoveSession(store, id)
  /\ lastEvent' = Event("delete", FALSE)
  /\ UNCHANGED <<now, ticks, results, isListening, transcript, currentSession, rec, oldEnds,
                 beginTimeRef, interimTimerRef, pendingInterimRef, lastFinalRef,
                 effectRuns>>

\* deleteSession
DeleteSession(id) ==
  /\ store' = RemoveSession(store, id)
  /\ IF currentSession # Null /\ currentSession.id = id
     THEN /\ currentSession' = Null
          /\ transcript' = <<>>
     ELSE UNCHANGED <<currentSession, transcript>>
  /\ lastEvent' = Event("delete", FALSE)
  /\ UNCHANGED <<now, ticks, results, isListening, rec, oldEnds, beginTimeRef,
                 interimTimerRef, pendingInterimRef, lastFinalRef, effectRuns>>

\* ---------------------------------------------- the initialising effect
\* A change of language / continuous / interimResults / maxAlternatives runs
\* the cleanup (stop the recognition object) and the effect again: a new
\* recognition object whose handlers close over the currentSession of that
\* render.
OptionsChange ==
  /\ effectRuns <= MaxOptionChanges
  /\ effectRuns' = effectRuns + 1
  /\ IF rec = Null
     THEN UNCHANGED <<rec, oldEnds>>
     ELSE /\ rec' = [state |-> "idle", captured |-> currentSession]
          /\ oldEnds' = IF rec.state = "idle" THEN oldEnds
                        ELSE Append(oldEnds, rec.captured)
  /\ lastEvent' = Event("options", FALSE)
  /\ UNCHANGED <<now, ticks, results, isListening, transcript, currentSession, store,
                 beginTimeRef, interimTimerRef, pendingInterimRef, lastFinalRef>>

\* onend of a replaced recognition object, with the closure it was given
OldOnEnd(i) ==
  /\ i \in 1..Len(oldEnds)
  /\ oldEnds' = SubSeq(oldEnds, 1, i - 1) \o SubSeq(oldEnds, i + 1, Len(oldEnds))
  /\ isListening' = FALSE
  /\ store' = IF oldEnds[i] # Null THEN SaveSession(store, oldEnds[i]) ELSE store
  /\ lastEvent' = Event("onend", FALSE)
  /\ UNCHANGED <<now, ticks, results, transcript, currentSession, rec, beginTimeRef,
                 interimTimerRef, pendingInterimRef, lastFinalRef, effectRuns>>

\* ---------------------------------------------------------- specification
SessionIds == DOMAIN store \cup {NoTime}

CapInit ==
  /\ now = 0
  /\ isListening = FALSE
  /\ transcript = <<>>
  /\ currentSession = Null
  /\ \/ rec = [state |-> "idle", captured |-> Null]
     \/ rec = Null
  /\ store = <<>>
  /\ ticks = 0
  /\ results = 0
  /\ oldEnds = <<>>
  /\ beginTimeRef = NoTime
  /\ interimTimerRef = NoTime
  /\ pendingInterimRef = Null
  /\ lastFinalRef = Null
  /\ effectRuns = 1
  /\ lastEvent = Event("init", FALSE)

\* ------------------------------------------------------- useNimCaptions
VARIABLES
  nimSettings,         \* useState nimSettings
  enhancedTranscript,  \* useState enhancedTranscript
  nimProcessingQueue,  \* useState nimProcessingQueue
  isProcessingNim,     \* useState isProcessingNim
  processedEntries,    \* processedEntries.current
  nimClosure,          \* the state values of the last render, which the
                       \* callbacks of that render close over
  nimCalls,            \* enhance-captions requests awaiting their response
  issued,              \* every enhance-captions request sent so far
  failed,              \* the requests ([id, auto]) answered with an error
  userCalls,           \* number of enhanceCaption calls by the consumer
  settingsChanges      \* number of updateNimSettings calls

nimVars ==
  <<nimSettings, enhancedTranscript, nimProcessingQueue, isProcessingNim,
    processedEntries, nimClosure, nimCalls, issued, failed, userCalls,
    settingsChanges>>

\* undefined enhancedText / nimConfidence
NoText == <<>>
NoConf == 0 - 1

\* the remote enhance-captions service: some text other than the input
Enhance(text) == text \o <<".">>

\* text.substring(0, 20)
Prefix(text) ==
  SubSeq(text, 1, IF Len(text) < IdPrefixLen THEN Len(text) ELSE IdPrefixLen)

\* `${e.timestamp.getTime()}_${e.originalText.substring(0, 20)}`
EntryId(e) == <<e.timestamp, Prefix(e.originalText)>>

ConvertToEnhanced(entry) ==
  [text |-> entry.text, timestamp |-> entry.timestamp,
   startTime |-> entry.startTime, endTime |-> entry.endTime,
   confidence |-> entry.confidence, isFinal |-> entry.isFinal,
   speaker |-> entry.speaker, originalText |-> entry.text,
   processingStatus |-> "pending", enhancedText |-> NoText,
   nimConfidence |-> NoConf]

\* originalCaptions.transcript.map(convertToEnhanced)
MapEnhanced(t) == [i \in 1..Len(t) |-> ConvertToEnhanced(t[i])]

DefaultNimSettings ==
  [enableNvidiaEnhancement |-> TRUE, enhanceOnlyFinalCaptions |-> TRUE,
   confidenceThreshold |-> DefaultThreshold]

\* settings a consumer may switch to
SettingsChoices ==
  {DefaultNimSettings,
   [DefaultNimSettings EXCEPT !.enableNvidiaEnhancement = FALSE],
   [DefaultNimSettings EXCEPT !.enhanceOnlyFinalCaptions = FALSE]}

\* variant of the effect's filter: the confidence is not looked at
NewFinalAnyConfidence(newEnhanced, processed, settings) ==
  SelectSeq(newEnhanced,
            LAMBDA e : e.isFinal /\ EntryId(e) \notin processed)

\* the entries the transcript effect hands to enhanceCaption
NewFinalEntries(newEnhanced, processed, settings) ==
  SelectSeq(newEnhanced,
            LAMBDA e : /\ e.isFinal
                       /\ EntryId(e) \notin processed
                       /\ e.confidence >= settings.confidenceThreshold)

\* prev.map(e => id(e) === entryId ? {...e, processingStatus: status} : e)
SetStatus(enh, id, status) ==
  [i \in 1..Len(enh) |->
     IF EntryId(enh[i]) = id THEN [enh[i] EXCEPT !.processingStatus = status]
     ELSE enh[i]]

\* the success update of enhanceCaption
SetEnhanced(enh, id, text) ==
  [i \in 1..Len(enh) |->
     IF EntryId(enh[i]) = id
     THEN [enh[i] EXCEPT !.enhancedText = text,
                         !.processingStatus = "enhanced",
                         !.nimConfidence = NimConfidence]
     ELSE enh[i]]

\* prev.filter(id => id !== entryId)
WithoutId(queue, id) == SelectSeq(queue, LAMBDA q : q # id)

InQueue(queue, id) == \E i \in 1..Len(queue) : queue[i] = id

\* enhancedTranscript.find(e => id(e) === entryId), or Null
FindEntry(enh, id) ==
  IF \E i \in 1..Len(enh) : EntryId(enh[i]) = id
  THEN enh[CHOOSE i \in 1..Len(enh) :
             /\ EntryId(enh[i]) = id
             /\ \A j \in 1..(i - 1) : EntryId(enh[j]) # id]
  ELSE Null

\* The state one call of enhanceCaption works on.
NimState(enh, queue, busy, calls, sent) ==
  [enh |-> enh, queue |-> queue, busy |-> busy, calls |-> calls, sent |-> sent]

\* the guard of enhanceCaption, on the queue of the render it closes over
AlreadyQueued(closure, id) == InQueue(closure.nimProcessingQueue, id)

\* enhanceCaption(entryId) up to its first await (or to its end when the
\* entry is not found), for a callback that closes over `closure`
EnhanceCaption(st, id, closure, auto) ==
  IF AlreadyQueued(closure, id) THEN st
  ELSE LET entry == FindEntry(closure.enhancedTranscript, id)
       IN IF entry = Null
          THEN NimState(SetStatus(st.enh, id, "error"),
                        WithoutId(Append(st.queue, id), id),
                        Len(closure.nimProcessingQueue) > 1,
                        st.calls, st.sent)
          ELSE NimState(SetStatus(st.enh, id, "processing"),
                        Append(st.queue, id),
                        TRUE,
                        Append(st.calls, [id |-> id, rawText |-> entry.originalText,
                                          qlen |-> Len(closure.nimProcessingQueue),
                                          auto |-> auto]),
                        Append(st.sent, [id |-> id, auto |-> auto]))

\* newFinalEntries.forEach(entry => enhanceCaption(id(entry)))
RECURSIVE EnhanceAll(_, _, _)
EnhanceAll(st, entries, closure) ==
  IF entries = <<>> THEN st
  ELSE EnhanceAll(EnhanceCaption(st, EntryId(Head(entries)), closure, TRUE),
                  Tail(entries), closure)

\* the values a render hands to the callbacks it creates; settingsVersion
\* stands for the identity of the nimSettings object, which every
\* updateNimSettings replaces
Snapshot ==
  [transcript |-> transcript, nimSettings |-> nimSettings,
   settingsVersion |-> settingsChanges,
   enhancedTranscript |-> enhancedTranscript,
   nimProcessingQueue |-> nimProcessingQueue]

\* the effect on [originalCaptions.transcript, nimSettings, convertToEnhanced]
TranscriptEffect(closure) ==
  LET newEnhanced == MapEnhanced(closure.transcript)
      st0 == NimState(newEnhanced, nimProcessingQueue, isProcessingNim, nimCalls, issued)
      todo == IF closure.nimSettings.enableNvidiaEnhancement
                 /\ closure.nimSettings.enhanceOnlyFinalCaptions
              THEN NewFinalEntries(newEnhanced, processedEntries, closure.nimSettings)
              ELSE <<>>
  IN EnhanceAll(st0, todo, closure)

\* A render commits the state, and the transcript effect runs when one of its
\* dependencies differs from the previous render's.
Render ==
  /\ Snapshot # nimClosure
  /\ nimClosure' = Snapshot
  /\ IF transcript # nimClosure.transcript
        \/ settingsChanges # nimClosure.settingsVersion
     THEN LET st == TranscriptEffect(Snapshot)
          IN /\ enhancedTranscript' = st.enh
             /\ nimProcessingQueue' = st.queue
             /\ isProcessingNim' = st.busy
             /\ nimCalls' = st.calls
             /\ issued' = st.sent
     ELSE UNCHANGED <<enhancedTranscript, nimProcessingQueue, isProcessingNim,
                      nimCalls, issued>>
  /\ UNCHANGED <<nimSettings, processedEntries, failed, userCalls, settingsChanges>>

\* enhanceCaption called by the consumer of the hook, with the callback of
\* the last render
UserEnhance(id) ==
  /\ userCalls < MaxUserCalls
  /\ userCalls' = userCalls + 1
  /\ LET st == EnhanceCaption(
                 NimState(enhancedTranscript, nimProcessingQueue, isProcessingNim,
                          nimCalls, issued),
                 id, nimClosure, FALSE)
     IN /\ enhancedTranscript' = st.enh
        /\ nimProcessingQueue' = st.queue
        /\ isProcessingNim' = st.busy
        /\ nimCalls' = st.calls
        /\ issued' = st.sent
  /\ UNCHANGED <<nimSettings, processedEntries, nimClosure, failed, settingsChanges>>

DropCall(i) == SubSeq(nimCalls, 1, i - 1) \o SubSeq(nimCalls, i + 1, Len(nimCalls))

\* the response of request i arrives: the rest of the try block, and finally
RemoteOk(i) ==
  /\ i \in 1..Len(nimCalls)
  /\ Snapshot = nimClosure
  /\ LET c == nimCalls[i]
     IN /\ enhancedTranscript' = SetEnhanced(enhancedTranscript, c.id, Enhance(c.rawText))
        /\ processedEntries' = processedEntries \cup {c.id}
        /\ nimProcessingQueue' = WithoutId(nimProcessingQueue, c.id)
        /\ isProcessingNim' = (c.qlen > 1)
  /\ nimCalls' = DropCall(i)
  /\ UNCHANGED <<nimSettings, nimClosure, issued, failed, userCalls, settingsChanges>>

\* request i fails: the catch block, and finally
RemoteFail(i) ==
  /\ i \in 1..Len(nimCalls)
  /\ Snapshot = nimClosure
  /\ LET c == nimCalls[i]
     IN /\ enhancedTranscript' = SetStatus(enhancedTranscript, c.id, "error")
        /\ nimProcessingQueue' = WithoutId(nimProcessingQueue, c.id)
        /\ isProcessingNim' = (c.qlen > 1)
        /\ failed' = failed \cup {[id |-> c.id, auto |-> c.auto]}
  /\ nimCalls' = DropCall(i)
  /\ UNCHANGED <<nimSettings, processedEntries, nimClosure, issued, userCalls,
                 settingsChanges>>

\* updateNimSettings
UpdateNimSettings(s) ==
  /\ settingsChanges < MaxSettingsChanges
  /\ settingsChanges' = settingsChanges + 1
  /\ nimSettings' = s
  /\ UNCHANGED <<enhancedTranscript, nimProcessingQueue, isProcessingNim,
                 processedEntries, nimClosure, nimCalls, issued, failed, userCalls>>

NimInit ==
  /\ nimSettings = DefaultNimSettings
  /\ enhancedTranscript = <<>>
  /\ nimProcessingQueue = <<>>
  /\ isProcessingNim = FALSE
  /\ processedEntries = {}
  /\ nimClosure = [transcript |-> <<>>, nimSettings |-> DefaultNimSettings,
                   settingsVersion |-> 0,
                   enhancedTranscript |-> <<>>, nimProcessingQueue |-> <<>>]
  /\ nimCalls = <<>>
  /\ issued = <<>>
  /\ failed = {}
  /\ userCalls = 0
  /\ settingsChanges = 0

\* ------------------------------- generateSummary / extractActionItems
VARIABLES
  summaryCalls,   \* summarize requests awaiting their response
  lastSummary,    \* the last call of generateSummary / extractActionItems:
                  \* [type, outcome, transcript], outcome "threw" or "sent"
  summaryCount    \* number of calls of generateSummary / extractActionItems

sumVars == <<summaryCalls, lastSummary, summaryCount>>

\* entry.enhancedText || entry.originalText
DisplayText(e) == IF e.enhancedText # NoText THEN e.enhancedText ELSE e.originalText

\* texts.join('\n')
RECURSIVE JoinLines(_)
JoinLines(texts) ==
  IF texts = <<>> THEN <<>>
  ELSE IF Len(texts) = 1 THEN texts[1]
  ELSE texts[1] \o <<"\n">> \o JoinLines(Tail(texts))

\* enhancedTranscript.filter(isFinal).map(enhancedText || originalText).join('\n')
SummaryText(enh) ==
  LET finals == Finals(enh)
  IN JoinLines([i \in 1..Len(finals) |-> DisplayText(finals[i])])

\* !currentNimSession || enhancedTranscript.length === 0 ; currentNimSession
\* is set from currentSession by the effect on [currentSession, ...]
NothingToSummarize(session, enh) == session = Null \/ Len(enh) = 0

\* generateSummary (type "summary") and extractActionItems (type
\* "action-items") up to the await of callNimApi('summarize', ...)
GenerateSummary(type) ==
  /\ summaryCount < MaxSummaryCalls
  /\ summaryCount' = summaryCount + 1
  /\ IF NothingToSummarize(currentSession, enhancedTranscript)
     THEN /\ lastSummary' = [type |-> type, outcome |-> "threw", transcript |-> <<>>]
          /\ UNCHANGED <<summaryCalls, isProcessingNim>>
     ELSE /\ lastSummary' = [type |-> type, outcome |-> "sent",
                             transcript |-> SummaryText(enhancedTranscript)]
          /\ summaryCalls' = Append(summaryCalls,
                                    [type |-> type,
                                     transcript |-> SummaryText(enhancedTranscript)])
          /\ isProcessingNim' = TRUE
  /\ UNCHANGED <<nimSettings, enhancedTranscript, nimProcessingQueue, processedEntries,
                 nimClosure, nimCalls, issued, failed, userCalls, settingsChanges>>

\* the summarize response (or its failure) arrives: finally
SummaryReply ==
  /\ summaryCalls # <<>>
  /\ summaryCalls' = Tail(summaryCalls)
  /\ isProcessingNim' = FALSE
  /\ UNCHANGED <<lastSummary, summaryCount>>
  /\ UNCHANGED <<nimSettings, enhancedTranscript, nimProcessingQueue, processedEntries,
                 nimClosure, nimCalls, issued, failed, userCalls, settingsChanges>>

SumInit ==
  /\ summaryCalls = <<>>
  /\ lastSummary = [type |-> "none", outcome |-> "none", transcript |-> <<>>]
  /\ summaryCount = 0

\* ------------------------------ NvidiaSentimentClient.detectEmotionalShifts
\* A sentiment is [overall, confidence]; a confidence is a whole number of
\* hundredths (90 is the number 0.9 of the code).
Overalls == {"positive", "negative", "neutral"}

ConfGrid == {60, 75, 80, 90, 91}

Sentiments == [overall : Overalls, confidence : ConfGrid]

\* the confidences of the history items of a call
HistoryGrid == {60, 75, 90}

HistorySentiments == [overall : Overalls, confidence : HistoryGrid]

\* Math.abs(confidenceDiff) > 0.3 / > 0.15, in hundredths
DramaticDiff == 30
ModerateDiff == 15

\* previousSentiments.slice(-3)
RecentWindow == 3

\* array.slice(-n) for n > 0
SliceLast(s, n) == IF Len(s) <= n THEN s ELSE SubSeq(s, Len(s) - n + 1, Len(s))

ConfidencesOf(s) == [i \in 1..Len(s) |-> s[i].confidence]

\* recentSentiments.reduce((sum, s) => sum + s.confidence, 0)
RECURSIVE SumOf(_)
SumOf(confs) == IF confs = <<>> THEN 0 ELSE confs[1] + SumOf(Tail(confs))

Abs(x) == IF x < 0 THEN 0 - x ELSE x

\* The code computes confidenceDiff in binary64: sum of the confidences from
\* 0, division by the length, subtraction from the current confidence.  For
\* <<current, recent confidences>> of ConfGrid whose exact difference is 0.15 or
\* 0.3, these are the ones whose binary64 difference is above it, as in
\* 0.9 - 0.6 = 0.30000000000000004 and 0.75 - 0.6 = 0.15000000000000002.
\* Off 0.15 and 0.3 the binary64 and the exact difference lie on the same side
\* of both numbers.
RoundsAbove ==
 { <<75, <<60>>>>, <<90, <<60>>>>, <<60, <<75>>>>,
   <<90, <<75>>>>, <<60, <<90>>>>, <<75, <<90>>>>,
   <<75, <<60, 60>>>>, <<90, <<60, 60>>>>, <<60, <<60, 90>>>>,
   <<90, <<60, 90>>>>, <<60, <<75, 75>>>>, <<90, <<75, 75>>>>,
   <<60, <<90, 60>>>>, <<90, <<90, 60>>>>, <<60, <<90, 90>>>>,
   <<75, <<90, 90>>>>, <<75, <<60, 60, 60>>>>, <<90, <<60, 60, 60>>>>,
   <<80, <<60, 60, 75>>>>, <<80, <<60, 75, 60>>>>, <<60, <<60, 75, 90>>>>,
   <<90, <<60, 75, 90>>>>, <<60, <<60, 90, 75>>>>, <<90, <<60, 90, 75>>>>,
   <<80, <<75, 60, 60>>>>, <<60, <<75, 60, 90>>>>, <<90, <<75, 60, 90>>>>,
   <<60, <<75, 75, 75>>>>, <<90, <<75, 75, 75>>>>, <<60, <<75, 90, 60>>>>,
   <<90, <<75, 90, 60>>>>, <<60, <<90, 60, 75>>>>, <<90, <<90, 60, 75>>>>,
   <<60, <<90, 75, 60>>>>, <<90, <<90, 75, 60>>>>, <<60, <<90, 90, 90>>>>,
   <<75, <<90, 90, 90>>>> }

\* |confidence - sum / n| scaled by n, computed exactly
ScaledDiff(confidence, confs) == Abs(confidence * Len(confs) - SumOf(confs))

\* Math.abs(confidenceDiff) > threshold / 100
DiffExceeds(confidence, confs, threshold) ==
  IF ScaledDiff(confidence, confs) = threshold * Len(confs)
  THEN <<confidence, confs>> \in RoundsAbove
  ELSE ScaledDiff(confidence, confs) > threshold * Len(confs)

\* prevOverall && prevOverall !== currentSentiment.overall, a variant that
\* goes by the confidences
HasShiftByConfidence(current, recent) ==
  current.confidence # recent[Len(recent)].confidence

\* prevOverall && prevOverall !== currentSentiment.overall ; an overall is never
\* the empty string (parsed.overall || 'neutral')
HasShift(current, recent) == recent[Len(recent)].overall # current.overall

ShiftType(current, prevOverall) ==
  IF current.overall = "positive" /\ prevOverall # "positive" THEN "positive"
  ELSE IF current.overall = "negative" /\ prevOverall # "negative" THEN "negative"
  ELSE "neutral"

Intensity(current, recent) ==
  IF DiffExceeds(current.confidence, ConfidencesOf(recent), DramaticDiff) THEN "dramatic"
  ELSE IF DiffExceeds(current.confidence, ConfidencesOf(recent), ModerateDiff) THEN "moderate"
  ELSE "subtle"

NoShift == [hasShift |-> FALSE, shiftType |-> "neutral", intensity |-> "subtle"]

DetectEmotionalShifts(current, previousSentiments) ==
  IF Len(previousSentiments) = 0 THEN NoShift
  ELSE LET recent == SliceLast(previousSentiments, RecentWindow)
       IN IF ~HasShift(current, recent) THEN NoShift
          ELSE [hasShift  |-> TRUE,
                shiftType |-> ShiftType(current, recent[Len(recent)].overall),
                intensity |-> Intensity(current, recent)]

VARIABLES
  shiftCurrent,    \* the arguments of a call of detectEmotionalShifts
  shiftPrevious,
  shiftResult      \* its result, Null before the call returns

shiftVars == <<shiftCurrent, shiftPrevious, shiftResult>>

MaxPrevious == 4

\* the histories of at most MaxPrevious sentiments
Histories == UNION {[1..n -> HistorySentiments] : n \in 0..MaxPrevious}

DetectCall ==
  /\ shiftResult = Null
  /\ shiftResult' = DetectEmotionalShifts(shiftCurrent, shiftPrevious)
  /\ UNCHANGED <<shiftCurrent, shiftPrevious>>

\* no call of detectEmotionalShifts
ShiftIdle ==
  /\ shiftCurrent = [overall |-> "neutral", confidence |-> 60]
  /\ shiftPrevious = <<>>
  /\ shiftResult = NoShift

\* a call of detectEmotionalShifts about to be made
ShiftInputs ==
  /\ shiftCurrent \in Sentiments
  /\ shiftPrevious \in Histories
  /\ shiftResult = Null

\* ------------------------------------------ useSentimentAnalysis.analyzeText
VARIABLES
  sentimentSettings,  \* the settings prop: [enableRealTimeAnalysis,
                      \* emotionalShiftAlerts]
  sentimentHistory,   \* sentimentHistory.current
  sentimentCalls,     \* the calls of analyzeText that have not returned:
                      \* [stage, alerts, sentiment, shift]
  currentSentiment,   \* state.currentSentiment
  emotionalAlerts,    \* state.emotionalAlerts: [type, severity]
  isAnalyzing,        \* state.isAnalyzing
  completed,          \* the sentiments stored so far, in the order stored
  analyses,           \* number of calls of analyzeText
  alertsRaised,       \* the alerts handed to onEmotionalAlert, in order
  sentimentChanges    \* number of changes of the settings prop

hookVars == <<sentimentSettings, sentimentHistory, sentimentCalls, currentSentiment,
              emotionalAlerts, isAnalyzing, completed, analyses, alertsRaised,
              sentimentChanges>>

\* sentimentHistory.current.slice(-10)
HistoryKeep == 10

\* prev.emotionalAlerts.slice(-4)
AlertsKeep == 4

MaxAnalyses == 11
MaxInFlight == 2
MaxAlertAnalyses == 7
MaxSentimentChanges == 1

\* the results of analyzeSentiment in the runs of the hook
HookSentiments ==
  {[overall |-> "positive", confidence |-> 90],
   [overall |-> "negative", confidence |-> 60]}

\* the results of analyzeSentiment in the runs that look at the alerts
AlertSentiments ==
  HookSentiments \cup {[overall |-> "neutral", confidence |-> 90]}

SentimentSettingsChoices ==
  [enableRealTimeAnalysis : BOOLEAN, emotionalShiftAlerts : BOOLEAN]

DefaultSentimentSettings ==
  [enableRealTimeAnalysis |-> TRUE, emotionalShiftAlerts |-> TRUE]

RemoveAt(s, i) == SubSeq(s, 1, i - 1) \o SubSeq(s, i + 1, Len(s))

\* the alert of a shift that has one
AlertOf(shift) ==
  [type     |-> IF shift.shiftType = "positive" THEN "positive_shift" ELSE "negative_shift",
   severity |-> IF shift.intensity = "dramatic" THEN "high" ELSE "medium"]

\* shiftAnalysis.hasShift && shiftAnalysis.intensity !== 'subtle', a variant
\* that lets subtle shifts through
RaisesAlertOnAnyShift(shift) == shift.hasShift

\* shiftAnalysis.hasShift && shiftAnalysis.intensity !== 'subtle'
RaisesAlert(shift) == shift.hasShift /\ shift.intensity # "subtle"

\* analyzeText from "Store sentiment in history" to its return
StoreSentiment(i, sentiment) ==
  /\ sentimentHistory' = Append(SliceLast(sentimentHistory, HistoryKeep), sentiment)
  /\ currentSentiment' = sentiment
  /\ isAnalyzing' = FALSE
  /\ completed' = Append(completed, sentiment)
  /\ sentimentCalls' = RemoveAt(sentimentCalls, i)

\* analyzeText up to the await of analyzeSentiment
AnalyzeText(budget) ==
  /\ analyses < budget
  /\ Len(sentimentCalls) < MaxInFlight
  /\ analyses' = analyses + 1
  /\ IF ~sentimentSettings.enableRealTimeAnalysis
     THEN UNCHANGED <<sentimentCalls, isAnalyzing>>
     ELSE /\ isAnalyzing' = TRUE
          /\ sentimentCalls' =
               Append(sentimentCalls,
                      [stage |-> "analyzing",
                       alerts |-> sentimentSettings.emotionalShiftAlerts,
                       sentiment |-> Null, shift |-> Null])
  /\ UNCHANGED <<sentimentSettings, sentimentHistory, currentSentiment, emotionalAlerts,
                 completed, alertsRaised, sentimentChanges>>

\* analyzeSentiment returns to call i: up to the await of
\* detectEmotionalShifts, or to the return if the detector is not called
SentimentResolved(i, sentiment) ==
  /\ sentimentCalls[i].stage = "analyzing"
  /\ IF sentimentCalls[i].alerts /\ Len(sentimentHistory) > 0
     THEN /\ sentimentCalls' =
               [sentimentCalls EXCEPT
                  ![i] = [stage |-> "detecting", alerts |-> @.alerts,
                          sentiment |-> sentiment,
                          shift |-> DetectEmotionalShifts(sentiment, sentimentHistory)]]
          /\ UNCHANGED <<sentimentHistory, currentSentiment, isAnalyzing, completed>>
     ELSE StoreSentiment(i, sentiment)
  /\ UNCHANGED <<sentimentSettings, emotionalAlerts, analyses, alertsRaised,
                 sentimentChanges>>

\* detectEmotionalShifts returns to call i: the alert, then the history
ShiftResolved(i) ==
  /\ sentimentCalls[i].stage = "detecting"
  /\ IF RaisesAlert(sentimentCalls[i].shift)
     THEN /\ emotionalAlerts' = Append(SliceLast(emotionalAlerts, AlertsKeep),
                                       AlertOf(sentimentCalls[i].shift))
          /\ alertsRaised' = Append(alertsRaised, AlertOf(sentimentCalls[i].shift))
     ELSE UNCHANGED <<emotionalAlerts, alertsRaised>>
  /\ StoreSentiment(i, sentimentCalls[i].sentiment)
  /\ UNCHANGED <<sentimentSettings, analyses, sentimentChanges>>

\* the consumer passes another settings object
UpdateSentimentSettings(s) ==
  /\ sentimentChanges < MaxSentimentChanges
  /\ s # sentimentSettings
  /\ sentimentChanges' = sentimentChanges + 1
  /\ sentimentSettings' = s
  /\ UNCHANGED <<sentimentHistory, sentimentCalls, currentSentiment, emotionalAlerts,
                 isAnalyzing, completed, analyses, alertsRaised>>

HookInit ==
  /\ sentimentSettings = DefaultSentimentSettings
  /\ sentimentHistory = <<>>
  /\ sentimentCalls = <<>>
  /\ currentSentiment = Null
  /\ emotionalAlerts = <<>>
  /\ isAnalyzing = FALSE
  /\ completed = <<>>
  /\ analyses = 0
  /\ alertsRaised = <<>>
  /\ sentimentChanges = 0

\* -------------------------- NvidiaSentimentClient.createFallbackSentiment
\* A text is a sequence of one-character strings, as in the captions model.
PositiveWords ==
  <<<<"g", "o", "o", "d">>,
    <<"g", "r", "e", "a", "t">>,
    <<"e", "x", "c", "e", "l", "l", "e", "n", "t">>,
    <<"a", "m", "a", "z", "i", "n", "g">>,
    <<"p", "e", "r", "f", "e", "c", "t">>,
    <<"l", "o", "v", "e">>,
    <<"l", "i", "k", "e">>,
    <<"h", "a", "p", "p", "y">>>>

NegativeWords ==
  <<<<"b", "a", "d">>,
    <<"t", "e", "r", "r", "i", "b", "l", "e">>,
    <<"a", "w", "f", "u", "l">>,
    <<"h", "a", "t", "e">>,
    <<"d", "i", "s", "l", "i", "k", "e">>,
    <<"a", "n", "g", "r", "y">>,
    <<"f", "r", "u", "s", "t", "r", "a", "t", "e", "d">>,
    <<"s", "a", "d">>>>

\* toLowerCase of one character; the texts hold G, L, O, V, E in upper case
LowerOf(c) ==
  IF c = "G" THEN "g" ELSE IF c = "L" THEN "l" ELSE IF c = "O" THEN "o"
  ELSE IF c = "V" THEN "v" ELSE IF c = "E" THEN "e" ELSE c

\* text.toLowerCase()
ToLowerCase(text) == [i \in 1..Len(text) |-> LowerOf(text[i])]

\* lowerText.includes(word)
Includes(text, word) ==
  \E i \in 1..(Len(text) - Len(word) + 1) : SubSeq(text, i, i + Len(word) - 1) = word

\* words.filter(word => lowerText.includes(word)).length
RECURSIVE CountIncluded(_, _)
CountIncluded(words, text) ==
  IF words = <<>> THEN 0
  ELSE (IF Includes(text, Head(words)) THEN 1 ELSE 0) + CountIncluded(Tail(words), text)

\* a variant of the comparison of the two counts in which a tie is positive
FallbackOverallTieUp(positiveCount, negativeCount) ==
  IF positiveCount >= negativeCount THEN "positive" ELSE "negative"

FallbackOverall(positiveCount, negativeCount) ==
  IF positiveCount > negativeCount THEN "positive"
  ELSE IF negativeCount > positiveCount THEN "negative"
  ELSE "neutral"

\* the returned object; confidence and emotions in hundredths
FallbackOf(overall) ==
  [overall    |-> overall,
   confidence |-> 60,
   emotions   |-> [joy      |-> IF overall = "positive" THEN 70 ELSE 30,
                   sadness  |-> IF overall = "negative" THEN 60 ELSE 20,
                   anger    |-> IF overall = "negative" THEN 40 ELSE 10,
                   fear     |-> 10,
                   surprise |-> 20,
                   disgust  |-> IF overall = "negative" THEN 30 ELSE 10],
   intensity  |-> "medium",
   keywords   |-> <<>>]

CreateFallbackSentiment(text) ==
  FallbackOf(FallbackOverall(CountIncluded(PositiveWords, ToLowerCase(text)),
                             CountIncluded(NegativeWords, ToLowerCase(text))))

VARIABLES
  fallbackText,     \* the argument of the calls of createFallbackSentiment
  fallbackResults   \* the results of the calls made so far

fallbackVars == <<fallbackText, fallbackResults>>

MaxFallbackCalls == 2
MaxTokens == 3

\* the words the texts are made of
Tokens ==
  {<<"g", "o", "o", "d">>,
   <<"G", "r", "e", "a", "t">>,
   <<"L", "O", "V", "E">>,
   <<"b", "a", "d">>,
   <<"d", "i", "s", "l", "i", "k", "e">>,
   <<"u", "n", "h", "a", "p", "p", "y">>,
   <<"f", "i", "n", "e">>}

RECURSIVE JoinSpaces(_)
JoinSpaces(tokens) ==
  IF tokens = <<>> THEN <<>>
  ELSE IF Len(tokens) = 1 THEN tokens[1]
  ELSE tokens[1] \o <<" ">> \o JoinSpaces(Tail(tokens))

FallbackTexts ==
  {JoinSpaces(t) : t \in UNION {[1..n -> Tokens] : n \in 0..MaxTokens}}

FallbackCall ==
  /\ Len(fallbackResults) < MaxFallbackCalls
  /\ fallbackResults' = Append(fallbackResults, CreateFallbackSentiment(fallbackText))
  /\ UNCHANGED fallbackText

\* no call of createFallbackSentiment
FallbackIdle == fallbackText = <<>> /\ fallbackResults = <<>>

\* calls of createFallbackSentiment about to be made
FallbackInputs == fallbackText \in FallbackTexts /\ fallbackResults = <<>>

\* ------------------------- CaptionCollaboration: the custom-event listener
VARIABLES
  participants,     \* useParticipants(): the user ids in the call
  localUserId,      \* localParticipant?.userId
  remoteCaptions,   \* state remoteCaptions: sender id -> [text, name]
  cleanupTimers,    \* the timeouts of cleanupTimers.current that have neither
                    \* fired nor been cleared: sender id -> milliseconds left
  updates,          \* number of custom events delivered
  depsChanges       \* number of changes of participants / local user id

collabVars == <<participants, localUserId, remoteCaptions, cleanupTimers, updates,
                depsChanges>>

\* setTimeout(..., 6000)
ExpiryDelay == 6000

\* the step of the clock of the overlay
CollabStep == ExpiryDelay \div 2

MaxUpdates == 3
MaxDepsChanges == 2

NoSender == "none"
UserIds == {"me", "u1", "u2"}
CaptionTexts == {RawWord, RawGap}

\* the function f without the key k
Without(f, k) == [x \in (DOMAIN f) \ {k} |-> f[x]]

\* the function f with the key k set to v
With(f, k, v) == [x \in (DOMAIN f) \cup {k} |-> IF x = k THEN v ELSE f[x]]

\* the empty object {}
NoEntries == [x \in {} |-> Null]

\* sender?.name || sender?.userId || 'Participant'
NameOf(senderId) == IF senderId \in participants THEN senderId ELSE "Participant"

\* handleCustomEvent for an event of type caption-update
HandleCustomEvent(senderId, text) ==
  /\ updates < MaxUpdates
  /\ updates' = updates + 1
  /\ IF senderId = NoSender \/ senderId = localUserId
     THEN UNCHANGED <<remoteCaptions, cleanupTimers>>
     ELSE /\ remoteCaptions' =
               With(remoteCaptions, senderId, [text |-> Trim(text), name |-> NameOf(senderId)])
          /\ cleanupTimers' = With(cleanupTimers, senderId, ExpiryDelay)
  /\ UNCHANGED <<participants, localUserId, depsChanges>>

\* the timeout of senderId fires
ExpireCaption(senderId) ==
  /\ senderId \in DOMAIN cleanupTimers
  /\ cleanupTimers[senderId] = 0
  /\ remoteCaptions' = Without(remoteCaptions, senderId)
  /\ cleanupTimers' = Without(cleanupTimers, senderId)
  /\ UNCHANGED <<participants, localUserId, updates, depsChanges>>

\* time passes while a timeout is pending; a timeout that is due fires first
CollabTick ==
  /\ DOMAIN cleanupTimers # {}
  /\ \A x \in DOMAIN cleanupTimers : cleanupTimers[x] >= CollabStep
  /\ cleanupTimers' = [x \in DOMAIN cleanupTimers |-> cleanupTimers[x] - CollabStep]
  /\ UNCHANGED <<participants, localUserId, remoteCaptions, updates, depsChanges>>

\* participants or the local user id change: the cleanup of the effect, then
\* the effect again with a new handler
ListenerEffect(newParticipants, newLocal) ==
  /\ depsChanges < MaxDepsChanges
  /\ <<newParticipants, newLocal>> # <<participants, localUserId>>
  /\ depsChanges' = depsChanges + 1
  /\ participants' = newParticipants
  /\ localUserId' = newLocal
  /\ cleanupTimers' = NoEntries
  /\ UNCHANGED <<remoteCaptions, updates>>

CollabInit ==
  /\ participants = {"me", "u1"}
  /\ localUserId = "me"
  /\ remoteCaptions = NoEntries
  /\ cleanupTimers = NoEntries
  /\ updates = 0
  /\ depsChanges = 0

\* the state outside the captioning hooks and the summary calls
\* ----------------------- useSentimentAnalysis.queueAnalysis and its drains
VARIABLES
  analysisQueue,     \* analysisQueue.current: the queued items, oldest first
  lastAnalysisTime,  \* lastAnalysisTime.current, in ms since the hook mounted
  queueNow,          \* the clock, in ms since the hook mounted
  drains,            \* the runs of processAnalysisQueue that have not
                     \* returned: [batch, stage, call, due]
  queued,            \* number of calls of queueAnalysis
  analysedItems      \* the items handed to analyzeText, in the order handed

queueVars == <<analysisQueue, lastAnalysisTime, queueNow, drains, queued, analysedItems>>

\* analysisQueue.current.splice(0, 5)
BatchSize == 5

\* setTimeout(resolve, 200)
InterItemDelay == 200

\* settings.analysisFrequency of the settings SentimentMonitor passes
AnalysisFrequency == 3

\* (now.getTime() - lastAnalysisTime.current.getTime()) / 1000
MsPerSecond == 1000

MaxQueued == 7
MaxQueueTime == 6200

\* the first n elements of s, and the rest: what splice(0, n) returns and leaves
TakeFirst(s, n) == SubSeq(s, 1, IF Len(s) < n THEN Len(s) ELSE n)
DropFirst(s, n) == SubSeq(s, (IF Len(s) < n THEN Len(s) ELSE n) + 1, Len(s))

\* a drain after `await analyzeText(item...)` was reached for the head of
\* batch: the call is pending, or it returned null at once and the drain waits
\* for the delay
Awaiting(batch) ==
  IF sentimentSettings.enableRealTimeAnalysis
  THEN [batch |-> batch, stage |-> "analyzing", call |-> Len(sentimentCalls) + 1,
        due |-> NoTime]
  ELSE [batch |-> batch, stage |-> "delay", call |-> 0,
        due |-> queueNow + InterItemDelay]

\* processAnalysisQueue, up to its first await, on queue
ProcessAnalysisQueue(queue) ==
  IF queue = <<>>
  THEN /\ analysisQueue' = queue
       /\ UNCHANGED <<lastAnalysisTime, drains, analysedItems>>
       /\ UNCHANGED hookVars
  ELSE /\ analysisQueue' = DropFirst(queue, BatchSize)
       /\ lastAnalysisTime' = queueNow
       /\ AnalyzeText(MaxQueued)
       /\ analysedItems' = Append(analysedItems, Head(queue))
       /\ drains' = Append(drains, Awaiting(TakeFirst(queue, BatchSize)))

\* queueAnalysis(text, speaker); the item is named by its number
QueueAnalysis ==
  /\ queued < MaxQueued
  /\ queued' = queued + 1
  /\ IF ~sentimentSettings.enableRealTimeAnalysis
     THEN /\ UNCHANGED <<analysisQueue, lastAnalysisTime, drains, analysedItems>>
          /\ UNCHANGED hookVars
     ELSE IF queueNow - lastAnalysisTime >= AnalysisFrequency * MsPerSecond
          THEN ProcessAnalysisQueue(Append(analysisQueue, queued + 1))
          ELSE /\ analysisQueue' = Append(analysisQueue, queued + 1)
               /\ UNCHANGED <<lastAnalysisTime, drains, analysedItems>>
               /\ UNCHANGED hookVars
  /\ UNCHANGED queueNow

\* the drains once call i of analyzeText has returned: its drain goes on to
\* the delay, and the calls behind it move up
AfterReturn(i) ==
  [k \in 1..Len(drains) |->
     IF drains[k].call = i
     THEN [drains[k] EXCEPT !.stage = "delay", !.call = 0,
                            !.due = queueNow + InterItemDelay]
     ELSE IF drains[k].call > i THEN [drains[k] EXCEPT !.call = @ - 1]
          ELSE drains[k]]

\* analyzeSentiment returns to a call made by a drain
QueueSentimentResolved(i, sentiment) ==
  /\ SentimentResolved(i, sentiment)
  /\ drains' = IF sentimentCalls[i].alerts /\ Len(sentimentHistory) > 0
               THEN drains ELSE AfterReturn(i)
  /\ UNCHANGED <<analysisQueue, lastAnalysisTime, queueNow, queued, analysedItems>>

\* detectEmotionalShifts returns to a call made by a drain
QueueShiftResolved(i) ==
  /\ ShiftResolved(i)
  /\ drains' = AfterReturn(i)
  /\ UNCHANGED <<analysisQueue, lastAnalysisTime, queueNow, queued, analysedItems>>

\* the 200 ms timeout of drain k fires: the next item of its batch, or the
\* end of the drain
DelayElapsed(k) ==
  /\ drains[k].stage = "delay"
  /\ queueNow >= drains[k].due
  /\ LET rest == Tail(drains[k].batch)
     IN IF rest = <<>>
        THEN /\ drains' = RemoveAt(drains, k)
             /\ UNCHANGED analysedItems
             /\ UNCHANGED hookVars
        ELSE /\ AnalyzeText(MaxQueued)
             /\ analysedItems' = Append(analysedItems, Head(rest))
             /\ drains' = [drains EXCEPT ![k] = Awaiting(rest)]
  /\ UNCHANGED <<analysisQueue, lastAnalysisTime, queueNow, queued>>

\* d ms pass; a timeout that is due fires before the clock moves past it
QueueTick(d) ==
  /\ queueNow + d <= MaxQueueTime
  /\ \A k \in 1..Len(drains) :
       drains[k].stage = "delay" => drains[k].due >= queueNow + d
  /\ queueNow' = queueNow + d
  /\ UNCHANGED <<analysisQueue, lastAnalysisTime, drains, queued, analysedItems>>
  /\ UNCHANGED hookVars

QueueInit ==
  /\ analysisQueue = <<>>
  /\ lastAnalysisTime = 0
  /\ queueNow = 0
  /\ drains = <<>>
  /\ queued = 0
  /\ analysedItems = <<>>

restVars == <<shiftVars, hookVars, fallbackVars, collabVars, queueVars>>

RestInit == ShiftIdle /\ HookInit /\ FallbackIdle /\ CollabInit /\ QueueInit

\* the state of the parts that the captioning hooks do not touch
extVars == <<sumVars, restVars>>

ExtInit == SumInit /\ RestInit

\* ---------------------------------------------------------- specifications
Init == CapInit /\ NimInit /\ ExtInit

vars == <<capVars, nimVars, extVars>>

\* useCaptions through listening runs: the recognition events, the timer, the
\* clock, and the callbacks that start and stop the recognizer
ListenNext ==
  \/ \E raw \in RawTexts, conf \in Confidences, isFinal \in BOOLEAN :
       OnResult(raw, conf, isFinal) /\ UNCHANGED <<nimVars, extVars>>
  \/ TimerFire /\ UNCHANGED <<nimVars, extVars>>
  \/ \E d \in Delays : Tick(d, MaxTicks) /\ UNCHANGED <<nimVars, extVars>>
  \/ OnStart /\ UNCHANGED <<nimVars, extVars>>
  \/ OnEnd /\ UNCHANGED <<nimVars, extVars>>
  \/ \E kind \in {"not-allowed", "aborted"} : OnError(kind) /\ UNCHANGED <<nimVars, extVars>>
  \/ \E perm \in {"granted"} \cup FailingEnvs :
       StartListening(perm) /\ UNCHANGED <<nimVars, extVars>>
  \/ StopListening /\ UNCHANGED <<nimVars, extVars>>
  \/ PauseListening /\ UNCHANGED <<nimVars, extVars>>
  \/ ResumeListening /\ UNCHANGED <<nimVars, extVars>>

Spec == Init /\ [][ListenNext]_vars

\* useCaptions with its session callbacks and the re-run of its effect
SessionNext ==
  \/ \E raw \in SessionTexts, conf \in Confidences, isFinal \in BOOLEAN :
       OnResult(raw, conf, isFinal) /\ UNCHANGED <<nimVars, extVars>>
  \/ TimerFire /\ UNCHANGED <<nimVars, extVars>>
  \/ Tick(InterimDelay, MaxTicks) /\ UNCHANGED <<nimVars, extVars>>
  \/ OnStart /\ UNCHANGED <<nimVars, extVars>>
  \/ OnEnd /\ UNCHANGED <<nimVars, extVars>>
  \/ \E perm \in {"granted", "denied"} : StartListening(perm) /\ UNCHANGED <<nimVars, extVars>>
  \/ StopListening /\ UNCHANGED <<nimVars, extVars>>
  \/ PauseListening /\ UNCHANGED <<nimVars, extVars>>
  \/ ResumeListening /\ UNCHANGED <<nimVars, extVars>>
  \/ ClearTranscript /\ UNCHANGED <<nimVars, extVars>>
  \/ \E id \in SessionIds : LoadSession(id) /\ UNCHANGED <<nimVars, extVars>>
  \/ \E id \in SessionIds : DeleteSession(id) /\ UNCHANGED <<nimVars, extVars>>
  \/ OptionsChange /\ UNCHANGED <<nimVars, extVars>>
  \/ \E i \in 1..Len(oldEnds) : OldOnEnd(i) /\ UNCHANGED <<nimVars, extVars>>

SpecSession == Init /\ [][SessionNext]_vars

\* the interim timer over several timer periods
TimerNext ==
  \/ \E raw \in TimerTexts, conf \in Confidences, isFinal \in BOOLEAN :
       OnResult(raw, conf, isFinal) /\ UNCHANGED <<nimVars, extVars>>
  \/ TimerFire /\ UNCHANGED <<nimVars, extVars>>
  \/ Tick(HalfDelay, MaxTimerTicks) /\ UNCHANGED <<nimVars, extVars>>
  \/ StartListening("granted") /\ UNCHANGED <<nimVars, extVars>>
  \/ OnStart /\ UNCHANGED <<nimVars, extVars>>
  \/ OnEnd /\ UNCHANGED <<nimVars, extVars>>

SpecTimer == Init /\ [][TimerNext]_vars

\* useNimCaptions over a listening run of useCaptions
RenderedIds ==
  {EntryId(nimClosure.enhancedTranscript[i]) :
     i \in 1..Len(nimClosure.enhancedTranscript)}

\* No render is pending: React has committed every state update.
Committed == Snapshot = nimClosure

\* An event is handled after the render its predecessor asked for; only the
\* consumer's calls of enhanceCaption may follow each other within one event.
NimNext ==
  \/ \E raw \in NimTexts, conf \in NimConfidences, isFinal \in BOOLEAN :
       /\ Committed /\ results < MaxNimResults
       /\ OnResult(raw, conf, isFinal) /\ UNCHANGED <<nimVars, extVars>>
  \/ Committed /\ TimerFire /\ UNCHANGED <<nimVars, extVars>>
  \/ Committed /\ Tick(InterimDelay, MaxTicks) /\ UNCHANGED <<nimVars, extVars>>
  \/ Committed /\ StartListening("granted") /\ UNCHANGED <<nimVars, extVars>>
  \/ Committed /\ OnStart /\ UNCHANGED <<nimVars, extVars>>
  \/ Render /\ UNCHANGED <<capVars, extVars>>
  \/ \E id \in RenderedIds : UserEnhance(id) /\ UNCHANGED <<capVars, extVars>>
  \/ \E i \in 1..Len(nimCalls) : RemoteOk(i) /\ UNCHANGED <<capVars, extVars>>
  \/ \E i \in 1..Len(nimCalls) : RemoteFail(i) /\ UNCHANGED <<capVars, extVars>>
  \/ \E s \in SettingsChoices :
       Committed /\ UpdateNimSettings(s) /\ UNCHANGED <<capVars, extVars>>

SpecNim == Init /\ [][NimNext]_vars

\* generateSummary and extractActionItems over a listening run
SummaryNext ==
  \/ \E raw \in NimTexts, conf \in Confidences, isFinal \in BOOLEAN :
       /\ Committed /\ results < MaxNimResults
       /\ OnResult(raw, conf, isFinal) /\ UNCHANGED <<nimVars, extVars>>
  \/ Committed /\ TimerFire /\ UNCHANGED <<nimVars, extVars>>
  \/ Committed /\ Tick(InterimDelay, MaxTicks) /\ UNCHANGED <<nimVars, extVars>>
  \/ Committed /\ StartListening("granted") /\ UNCHANGED <<nimVars, extVars>>
  \/ Committed /\ OnStart /\ UNCHANGED <<nimVars, extVars>>
  \/ Render /\ UNCHANGED <<capVars, extVars>>
  \/ \E i \in 1..Len(nimCalls) : RemoteOk(i) /\ UNCHANGED <<capVars, extVars>>
  \/ \E type \in {"summary", "action-items"} :
       Committed /\ GenerateSummary(type) /\ UNCHANGED <<capVars, restVars>>
  \/ SummaryReply /\ UNCHANGED <<capVars, restVars>>

SpecSummary == Init /\ [][SummaryNext]_vars

\* detectEmotionalShifts over its arguments
ShiftNext ==
  DetectCall /\ UNCHANGED <<capVars, nimVars, sumVars, hookVars, fallbackVars, collabVars, queueVars>>

ShiftInit ==
  CapInit /\ NimInit /\ SumInit /\ HookInit /\ FallbackIdle /\ CollabInit /\ QueueInit /\ ShiftInputs

SpecShift == ShiftInit /\ [][ShiftNext]_vars

\* analyzeText of useSentimentAnalysis, its calls overlapping
HookNext ==
  \/ AnalyzeText(MaxAnalyses)
       /\ UNCHANGED <<capVars, nimVars, sumVars, shiftVars, fallbackVars, collabVars, queueVars>>
  \/ \E i \in 1..Len(sentimentCalls), sentiment \in HookSentiments :
       SentimentResolved(i, sentiment) /\ UNCHANGED <<capVars, nimVars, sumVars, shiftVars, fallbackVars, collabVars, queueVars>>
  \/ \E i \in 1..Len(sentimentCalls) :
       ShiftResolved(i) /\ UNCHANGED <<capVars, nimVars, sumVars, shiftVars, fallbackVars, collabVars, queueVars>>

SpecHook == Init /\ [][HookNext]_vars

\* analyzeText and its alerts, the settings changing between calls
OtherThanHook == <<capVars, nimVars, sumVars, shiftVars, fallbackVars, collabVars, queueVars>>

AlertNext ==
  \/ AnalyzeText(MaxAlertAnalyses) /\ UNCHANGED OtherThanHook
  \/ \E i \in 1..Len(sentimentCalls), sentiment \in AlertSentiments :
       SentimentResolved(i, sentiment) /\ UNCHANGED OtherThanHook
  \/ \E i \in 1..Len(sentimentCalls) : ShiftResolved(i) /\ UNCHANGED OtherThanHook
  \/ \E s \in SentimentSettingsChoices :
       UpdateSentimentSettings(s) /\ UNCHANGED OtherThanHook

SpecAlerts == Init /\ [][AlertNext]_vars

\* createFallbackSentiment over its argument
FallbackNext ==
  FallbackCall /\ UNCHANGED <<capVars, nimVars, sumVars, shiftVars, hookVars, collabVars, queueVars>>

FallbackInit ==
  CapInit /\ NimInit /\ SumInit /\ HookInit /\ ShiftIdle /\ CollabInit /\ QueueInit /\ FallbackInputs

SpecFallback == FallbackInit /\ [][FallbackNext]_vars

\* the overlay of CaptionCollaboration: custom events, timeouts, changes of
\* the participants and of the local user
OtherThanCollab == <<capVars, nimVars, sumVars, shiftVars, hookVars, fallbackVars, queueVars>>

CollabNext ==
  \/ \E senderId \in UserIds \cup {NoSender}, text \in CaptionTexts :
       HandleCustomEvent(senderId, text) /\ UNCHANGED OtherThanCollab
  \/ \E senderId \in UserIds : ExpireCaption(senderId) /\ UNCHANGED OtherThanCollab
  \/ CollabTick /\ UNCHANGED OtherThanCollab
  \/ \E newParticipants \in SUBSET UserIds, newLocal \in {"me", "u2"} :
       /\ newLocal \in newParticipants
       /\ ListenerEffect(newParticipants, newLocal) /\ UNCHANGED OtherThanCollab

\* timeouts fire when due and the clock does not stop while one is pending
SpecCollab ==
  /\ Init /\ [][CollabNext]_vars
  /\ WF_vars(CollabTick /\ UNCHANGED OtherThanCollab)
  /\ \A senderId \in UserIds : WF_vars(ExpireCaption(senderId) /\ UNCHANGED OtherThanCollab)

\* queueAnalysis and the drains it starts; remote calls return, timeouts fire
\* when due and the clock runs on, while nothing makes the consumer call
\* queueAnalysis again
QueueSentiments == {[overall |-> "positive", confidence |-> 90]}

OtherThanQueue == <<capVars, nimVars, sumVars, shiftVars, fallbackVars, collabVars>>

CallReturns ==
  \/ \E i \in 1..Len(sentimentCalls), sentiment \in QueueSentiments :
       QueueSentimentResolved(i, sentiment) /\ UNCHANGED OtherThanQueue
  \/ \E i \in 1..Len(sentimentCalls) : QueueShiftResolved(i) /\ UNCHANGED OtherThanQueue

TimeoutFires == \E k \in 1..Len(drains) : DelayElapsed(k) /\ UNCHANGED OtherThanQueue

TimePasses ==
  \E d \in {InterItemDelay, AnalysisFrequency * MsPerSecond} :
     QueueTick(d) /\ UNCHANGED OtherThanQueue

QueueNext ==
  \/ QueueAnalysis /\ UNCHANGED OtherThanQueue
  \/ CallReturns
  \/ TimeoutFires
  \/ TimePasses

SpecQueue ==
  /\ Init /\ [][QueueNext]_vars
  /\ WF_vars(CallReturns) /\ WF_vars(TimeoutFires) /\ WF_vars(TimePasses)

\* ------------------------------------------------------------- properties
\* the last final entry of a transcript that has one
LastFinalOf(t) == Finals(t)[Len(Finals(t))]

\* a fragment the merge rule calls short
ShortText(text) == Len(text) <= ShortChars \/ SplitLength(text) <= ShortWords

\* the texts of a sequence of entries
Texts(t) == [i \in 1..Len(t) |-> t[i].text]

\* C1: a short final (<= 8 characters or <= 2 words) that arrives at most
\* 1500 ms after the previous final entry's endTime does not lengthen the live
\* transcript; the last final entry's text becomes previous + " " + new with
\* whitespace collapsed and trimmed, its endTime the new entry's endTime, and
\* it stays final.
C1_ShortFinalReplacesTail ==
  [][\A raw \in RawTexts, conf \in Confidences :
       (/\ OnResult(raw, conf, TRUE)
        /\ Finals(transcript) # <<>>
        /\ ShortText(Trim(raw))
        /\ now - LastFinalOf(transcript).endTime <= MergeWindow)
       => /\ Len(transcript') <= Len(transcript)
          /\ Len(transcript') = Len(Finals(transcript))
          /\ LET tail == transcript'[Len(transcript')]
             IN /\ tail.text = MergeText(LastFinalOf(transcript).text, Trim(raw))
                /\ tail.endTime = now
                /\ tail.isFinal
          /\ \A i \in 1..(Len(transcript') - 1) : transcript'[i] = Finals(transcript)[i]
    ]_vars

\* "a b" was merged into "one two three" exactly 1500 ms after it ended
C1_MergedAtWindowEdge ==
  /\ lastEvent.op = "merge"
  /\ Len(transcript) = 1
  /\ transcript[1].text = RawLong \o <<" ", "a", " ", "b">>
  /\ transcript[1].isFinal
  /\ transcript[1].startTime = 0
  /\ transcript[1].endTime = MergeWindow

\* C2: a short final that arrives more than 1500 ms after the previous final
\* entry's endTime is appended as a new entry and is not merged, in every
\* listening run.
C2_LateShortFinalAppended ==
  [][\A raw \in RawTexts, conf \in Confidences :
       (/\ OnResult(raw, conf, TRUE)
        /\ Finals(transcript) # <<>>
        /\ ShortText(Trim(raw))
        /\ now - LastFinalOf(transcript).endTime > MergeWindow)
       => transcript' = Finals(transcript) \o <<BaseEntry(raw, conf, TRUE)>>
    ]_vars

\* C3: a final with more than 8 characters and more than 2 words is appended
\* as a new tail entry, whatever the time since the previous final.
C3_LongFinalAppended ==
  [][\A raw \in RawTexts, conf \in Confidences :
       (/\ OnResult(raw, conf, TRUE)
        /\ Len(Trim(raw)) > ShortChars
        /\ SplitLength(Trim(raw)) > ShortWords)
       => /\ transcript' = Finals(transcript) \o <<BaseEntry(raw, conf, TRUE)>>
          /\ lastFinalRef' = BaseEntry(raw, conf, TRUE)
    ]_vars

\* "one two three" was appended in the millisecond in which the previous final
\* ended
C3_LongAppendedAtZeroGap ==
  /\ lastEvent.op = "append"
  /\ Len(transcript) = 2
  /\ transcript[2].text = RawLong
  /\ transcript[1].isFinal
  /\ transcript[2].startTime = transcript[1].endTime
  /\ transcript[2].endTime = transcript[1].endTime

\* every entry of t is final
AllFinal(t) == \A i \in 1..Len(t) : t[i].isFinal

\* C4: interim results and timer firings leave the active session and the
\* session store as they are (so a run of interim results only leaves the
\* session's transcript and its stored copy empty), and no entry with
\* isFinal = false is ever in a session transcript or in the store.
C4_InterimNeverPersisted ==
  /\ [](/\ (currentSession # Null => AllFinal(currentSession.transcript))
        /\ \A id \in DOMAIN store : AllFinal(store[id].transcript))
  /\ [][(\/ TimerFire
         \/ \E raw \in SessionTexts, conf \in Confidences : OnResult(raw, conf, FALSE))
        => UNCHANGED <<currentSession, store>>]_vars

\* the timer has published an interim while the active session and its stored
\* copy hold no entry
C4_InterimShownSessionEmpty ==
  /\ lastEvent.op = "timer"
  /\ Len(transcript) = 1
  /\ ~transcript[1].isFinal
  /\ currentSession # Null
  /\ currentSession.transcript = <<>>
  /\ currentSession.id \in DOMAIN store
  /\ store[currentSession.id].transcript = <<>>

C6_FinalUpsertsSession ==
  [][\A raw \in SessionTexts, conf \in Confidences :
       (OnResult(raw, conf, TRUE) /\ currentSession # Null)
       => /\ currentSession' # Null
          /\ currentSession'.id \in DOMAIN store'
          /\ Texts(store'[currentSession'.id].transcript) = Texts(Finals(transcript'))
          /\ Texts(currentSession'.transcript) = Texts(Finals(transcript'))
    ]_vars

C8_FinalCancelsInterim ==
  /\ [][\A raw \in TimerTexts, conf \in Confidences :
          OnResult(raw, conf, TRUE)
          => /\ pendingInterimRef' = Null
             /\ interimTimerRef' = NoTime
             /\ AllFinal(transcript')
             /\ transcript'[Len(transcript')].isFinal
       ]_vars
  /\ [][TimerFire => Finals(transcript') = Finals(transcript)]_vars
  /\ [](lastFinalRef # Null
          => /\ (pendingInterimRef # Null
                   => pendingInterimRef.timestamp >= lastFinalRef.timestamp)
             /\ \A i \in 1..Len(transcript) :
                  ~transcript[i].isFinal
                    => transcript[i].timestamp >= lastFinalRef.timestamp)

\* a final arrived while the timer of a buffered interim was pending
C8_FinalWhileTimerPending ==
  /\ lastEvent.op \in {"append", "merge"}
  /\ lastEvent.cancelled
  /\ pendingInterimRef = Null
  /\ interimTimerRef = NoTime
  /\ transcript # <<>>
  /\ AllFinal(transcript)

\* the automatic requests sent for an id
AutoCalls(sent, id) ==
  Cardinality({i \in 1..Len(sent) : sent[i].id = id /\ sent[i].auto})

\* C9: while a request for a composite id is awaiting its response, no second
\* request is sent for that id.
C9_OneRequestPerId ==
  \A i, j \in 1..Len(nimCalls) : nimCalls[i].id = nimCalls[j].id => i = j

\* C10: once the automatic request for an id has failed, no later transcript
\* or settings change sends another automatic request for that id.
C10_NoAutomaticRetry ==
  [][\A f \in failed :
       f.auto => AutoCalls(issued', f.id) = AutoCalls(issued, f.id)]_vars

\* the transcript effect runs in the render that is due
EffectDue ==
  transcript # nimClosure.transcript \/ settingsChanges # nimClosure.settingsVersion

\* an entry the effect's filter lets through, but for the processed-id set
Qualifies(e) == e.isFinal /\ e.confidence >= nimSettings.confidenceThreshold

\* the composite ids of the qualifying entries of the live transcript
QualifyingIds ==
  {EntryId(ConvertToEnhanced(transcript[j])) :
     j \in {k \in 1..Len(transcript) : Qualifies(transcript[k])}}

\* C11 (as stated): a run of the transcript effect sends a request only for an
\* entry that is final with confidence >= the threshold, and leaves every
\* interim or below-threshold entry pending.
C11_GatedPerEntry ==
  [][(Render /\ EffectDue)
     => /\ \A k \in (Len(issued) + 1)..Len(issued') :
             Qualifies(FindEntry(enhancedTranscript, issued'[k].id))
        /\ \A j \in 1..Len(enhancedTranscript') :
             ~Qualifies(enhancedTranscript'[j])
               => enhancedTranscript'[j].processingStatus = "pending"
    ]_vars

\* C11 (amended): entries are told apart by composite id.  A run of the
\* transcript effect sends requests only when enhancement is enabled and only
\* for ids of final entries with confidence >= the threshold, it leaves pending
\* every entry whose id is not such an id, and the reply to an automatic request
\* changes no entry with another id.
C11_GatedByCompositeId ==
  /\ [][(Render /\ EffectDue)
        => /\ \A k \in (Len(issued) + 1)..Len(issued') :
                /\ issued'[k].auto
                /\ nimSettings.enableNvidiaEnhancement
                /\ issued'[k].id \in QualifyingIds
           /\ \A j \in 1..Len(enhancedTranscript') :
                EntryId(enhancedTranscript'[j]) \notin QualifyingIds
                  => enhancedTranscript'[j].processingStatus = "pending"
       ]_vars
  /\ [][\A i \in 1..Len(nimCalls) :
          ((RemoteOk(i) \/ RemoteFail(i)) /\ nimCalls[i].auto)
          => /\ Len(enhancedTranscript') = Len(enhancedTranscript)
             /\ \A j \in 1..Len(enhancedTranscript) :
                  EntryId(enhancedTranscript[j]) # nimCalls[i].id
                    => enhancedTranscript'[j] = enhancedTranscript[j]
       ]_vars

\* an automatic request is out for a final above the threshold while a final
\* below the threshold, with another id, is pending
C11_LowConfidenceLeftPending ==
  /\ \E k \in 1..Len(nimCalls) : nimCalls[k].auto
  /\ \E j \in 1..Len(enhancedTranscript) :
       /\ enhancedTranscript[j].isFinal
       /\ enhancedTranscript[j].confidence < nimSettings.confidenceThreshold
       /\ enhancedTranscript[j].processingStatus = "pending"
       /\ \A k \in 1..Len(issued) : issued[k].id # EntryId(enhancedTranscript[j])

\* C12: generateSummary and extractActionItems throw and send nothing when the
\* enhanced transcript has no final entry, also when it holds an interim entry
\* only; otherwise they send, in one request, the final entries' texts
\* (enhancedText if present, else originalText) in order, joined by newlines.
C12_SummaryNeedsFinalEntry ==
  [][\A type \in {"summary", "action-items"} :
       GenerateSummary(type)
       => IF Finals(enhancedTranscript) = <<>>
          THEN lastSummary'.outcome = "threw" /\ summaryCalls' = summaryCalls
          ELSE /\ lastSummary'.outcome = "sent"
               /\ summaryCalls' = Append(summaryCalls,
                                         [type |-> type,
                                          transcript |-> SummaryText(enhancedTranscript)])
    ]_vars

\* the overall of the most recent history item of the call
PrevOverall == shiftPrevious[Len(shiftPrevious)].overall

\* the last min(3, n) history confidences of the call
RecentConfs == ConfidencesOf(SliceLast(shiftPrevious, RecentWindow))

\* C13: detectEmotionalShifts returns hasShift = false when the history is
\* empty or current.overall equals the overall of the most recent history
\* item, whatever the confidences; when the two differ it returns hasShift =
\* true with shiftType positive if current is positive, negative if current
\* is negative, neutral otherwise.
C13_ShiftIffOverallDiffers ==
  (shiftResult # Null) =>
    IF shiftPrevious = <<>> THEN ~shiftResult.hasShift
    ELSE IF PrevOverall = shiftCurrent.overall THEN ~shiftResult.hasShift
    ELSE /\ shiftResult.hasShift
         /\ shiftResult.shiftType =
              (IF shiftCurrent.overall = "positive" THEN "positive"
               ELSE IF shiftCurrent.overall = "negative" THEN "negative"
               ELSE "neutral")

\* C13 happens: equal overall, confidences 0.31 apart, no shift reported
C13_SameOverallFarConfidence ==
  /\ shiftResult # Null
  /\ shiftPrevious # <<>>
  /\ PrevOverall = shiftCurrent.overall
  /\ ScaledDiff(shiftCurrent.confidence, RecentConfs) > DramaticDiff * Len(RecentConfs)
  /\ ~shiftResult.hasShift

\* the class of the exact difference d, in hundredths scaled by n
ExactIntensity(confidence, confs) ==
  IF ScaledDiff(confidence, confs) > DramaticDiff * Len(confs) THEN "dramatic"
  ELSE IF ScaledDiff(confidence, confs) > ModerateDiff * Len(confs) THEN "moderate"
  ELSE "subtle"

\* C14: when a shift is detected its intensity is the class of d =
\* |current.confidence - mean(confidence of the last min(3, n) history
\* items)|: dramatic iff d > 0.30, moderate iff 0.15 < d <= 0.30, subtle iff
\* d <= 0.15, so that d exactly 0.30 or 0.15 falls in the lower class.
C14_IntensityByDifference ==
  (shiftResult # Null /\ shiftResult.hasShift) =>
    shiftResult.intensity = ExactIntensity(shiftCurrent.confidence, RecentConfs)

\* C16: the sentiment history kept for shift detection never holds more than
\* 10 results: after any number of completed analyzeText calls its length is
\* <= 10 and it consists of the most recently completed results in
\* completion order.
C16_HistoryAtMostTen ==
  /\ Len(sentimentHistory) <= HistoryKeep
  /\ sentimentHistory = SliceLast(completed, HistoryKeep)

\* the list words that occur in the lower-cased argument
Occurring(words) ==
  {i \in 1..Len(words) : Includes(ToLowerCase(fallbackText), words[i])}

StartFails(env) ==
  \/ rec = Null
  \/ /\ ~isListening
     /\ \/ env \in {"insecure", "denied"}
        \/ env = "start-fails" /\ ~StartThrows(rec)

\* C17: if startListening fails (insecure context, microphone permission
\* denied, recognition not initialised, or recognition.start() throwing an
\* error other than InvalidStateError), no session is created: currentSession
\* and the live transcript are as before the call and isListening stays false.
C17_FailedStartCreatesNoSession ==
  [][(\E env \in {"granted"} \cup FailingEnvs : StartFails(env) /\ StartListening(env))
       => /\ currentSession' = currentSession
          /\ transcript' = transcript
          /\ isListening' = FALSE]_vars

\* C18: a remote sender's caption is removed from the overlay 6 seconds after
\* the last caption-update received from that sender; every caption that
\* enters the overlay is eventually removed, also when the participants list
\* or the local user id changes between the update and the 6-second deadline.
C18_CaptionEventuallyRemoved ==
  \A senderId \in UserIds :
    (senderId \in DOMAIN remoteCaptions) ~> (senderId \notin DOMAIN remoteCaptions)

\* C19: after clearTranscript the live transcript and the active session's
\* transcript are empty, the store holds the emptied session under its id, and
\* the interim buffer is empty, so that an interim buffered before the clear
\* is not published by a timer that fires after it.
C19_ClearEmptiesInterimBuffer ==
  [][ClearTranscript =>
       /\ transcript' = <<>>
       /\ (currentSession' # Null =>
             /\ currentSession'.transcript = <<>>
             /\ GetSession(store', currentSession'.id) = currentSession')
       /\ pendingInterimRef' = Null]_vars

\* C20: deleteSession(id) removes the session with that id from the store; if
\* id is the active session's id it also sets the active session to none and
\* empties the live transcript, otherwise the active session and the live
\* transcript are unchanged.  loadSession(id) with an id that is not in the
\* store changes nothing.
C20_DeleteAndLoadFrame ==
  [][\A id \in SessionIds :
       /\ DeleteSession(id) =>
            /\ GetSession(store', id) = Null
            /\ \A other \in SessionIds \ {id} :
                 GetSession(store', other) = GetSession(store, other)
            /\ IF currentSession # Null /\ currentSession.id = id
               THEN currentSession' = Null /\ transcript' = <<>>
               ELSE UNCHANGED <<currentSession, transcript>>
       /\ (LoadSession(id) /\ GetSession(store, id) = Null) =>
            UNCHANGED <<now, isListening, transcript, currentSession, store, rec,
                        beginTimeRef, interimTimerRef, pendingInterimRef,
                        lastFinalRef>>]_vars

\* C20 happens: the active session has been deleted (nothing else sets
\* currentSession to none after results have arrived) and another session is
\* still in the store
C20_ActiveSessionDeleted ==
  /\ currentSession = Null
  /\ transcript = <<>>
  /\ results > 0
  /\ DOMAIN store # {}

\* the call of analyzeText whose detector has returned raises an alert
AlertDue(call) ==
  /\ call.alerts
  /\ Len(sentimentHistory) > 0
  /\ call.shift.hasShift
  /\ call.shift.intensity # "subtle"

\* C21: analyzeText raises an emotional alert if and only if shift alerts are
\* enabled, the history is non-empty, the detector reports hasShift = true and
\* the intensity is not subtle; the severity is high when the intensity is
\* dramatic and medium otherwise; the alerts list holds the 5 most recent
\* alerts and never more.
C21_AlertIffShiftNotSubtle ==
  /\ [](/\ Len(emotionalAlerts) <= AlertsKeep + 1
        /\ emotionalAlerts = SliceLast(alertsRaised, AlertsKeep + 1))
  /\ [][/\ alertsRaised' # alertsRaised =>
             \E i \in 1..Len(sentimentCalls) :
               /\ sentimentCalls[i].stage = "detecting"
               /\ AlertDue(sentimentCalls[i])
               /\ Len(sentimentCalls') = Len(sentimentCalls) - 1
               /\ alertsRaised' =
                    Append(alertsRaised,
                           [type |-> alertsRaised'[Len(alertsRaised')].type,
                            severity |-> IF sentimentCalls[i].shift.intensity = "dramatic"
                                         THEN "high" ELSE "medium"])
        /\ \A i \in 1..Len(sentimentCalls) :
             (ShiftResolved(i) /\ AlertDue(sentimentCalls[i])) =>
               Len(alertsRaised') = Len(alertsRaised) + 1
        /\ \A i \in 1..Len(sentimentCalls) :
             (sentimentCalls[i].stage = "detecting") =>
               /\ sentimentCalls[i].alerts
               /\ Len(sentimentHistory) > 0]_vars

\* C21 happens: more than 5 alerts raised, of both severities, 5 kept
C21_SixthAlertDropsFirst ==
  /\ Len(alertsRaised) > AlertsKeep + 1
  /\ Len(emotionalAlerts) = AlertsKeep + 1
  /\ \E i, j \in 1..Len(alertsRaised) :
       alertsRaised[i].severity = "high" /\ alertsRaised[j].severity = "medium"

\* C22: stopping the event source (stopListening or pauseListening while
\* listening) cancels the pending interim timer, so that no interim entry is
\* added to the live transcript by a timer scheduled before the stop: after
\* the call no timer is pending, or none that has an interim to publish.
C22_StopCancelsInterimTimer ==
  [][(rec # Null /\ isListening /\ (StopListening \/ PauseListening)) =>
       (interimTimerRef' = NoTime \/ pendingInterimRef' = Null)]_vars

\* no entry of the derived view has status processing
NoneProcessing ==
  \A i \in 1..Len(enhancedTranscript) : enhancedTranscript[i].processingStatus # "processing"

\* C23: the NIM processing indicators are never stuck: once no remote call is
\* in flight nimProcessingQueue is empty, isProcessingNim is false and no
\* entry has status processing; while at least one enhancement call is in
\* flight isProcessingNim is true.
C23_IndicatorsFollowCalls ==
  /\ (nimCalls = <<>> /\ summaryCalls = <<>>) =>
       /\ nimProcessingQueue = <<>>
       /\ ~isProcessingNim
       /\ NoneProcessing
  /\ (nimCalls # <<>>) => isProcessingNim


\* the items were handed to analyzeText in the order they were queued
AnalysedInOrder ==
  \A i, j \in 1..Len(analysedItems) : i < j => analysedItems[i] < analysedItems[j]

\* C24: the sentiment queue is drained in FIFO order, at most 5 items per
\* drain, consecutive drain starts are at least analysisFrequency seconds
\* apart, and at no moment are two analyzeText calls issued from the queue in
\* flight together.
C24_OneQueuedAnalysisAtATime ==
  /\ [](/\ AnalysedInOrder
        /\ \A k \in 1..Len(drains) : Len(drains[k].batch) <= BatchSize
        /\ Len(sentimentCalls) <= 1)
  /\ [][Len(drains') > Len(drains) =>
          queueNow - lastAnalysisTime >= AnalysisFrequency * MsPerSecond]_vars

\* an item is waiting on the queue
Waiting(item) == \E i \in 1..Len(analysisQueue) : analysisQueue[i] = item

\* an item was handed to analyzeText
Analysed(item) == \E i \in 1..Len(analysedItems) : analysedItems[i] = item

\* C25: every item placed on the sentiment analysis queue is eventually
\* removed from the queue and analysed, remote calls and timers completing,
\* even if queueAnalysis is not called again after it.
C25_QueuedItemEventuallyAnalysed ==
  \A item \in 1..MaxQueued : Waiting(item) ~> (~Waiting(item) /\ Analysed(item))

\* the entry of the derived view is still an entry of the live transcript
StillInTranscript(e) ==
  \E j \in 1..Len(transcript) :
     /\ transcript[j].timestamp = e.timestamp
     /\ transcript[j].text = e.originalText

\* C26: an enhancement result is durable in the derived view: when a render
\* syncs the view with a changed transcript, an entry with status enhanced
\* that is still in the transcript keeps its status and enhancedText, and an
\* entry in status error or processing is not reset to pending.
C26_EnhancementSurvivesSync ==
  [][Render =>
       \A i \in 1..Len(enhancedTranscript) :
          LET e == enhancedTranscript[i]
          IN (e.processingStatus # "pending" /\ StillInTranscript(e)) =>
               \E j \in 1..Len(enhancedTranscript') :
                  LET f == enhancedTranscript'[j]
                  IN /\ EntryId(f) = EntryId(e)
                     /\ f.processingStatus # "pending"
                     /\ e.processingStatus = "enhanced" =>
                          /\ f.processingStatus = "enhanced"
                          /\ f.enhancedText = e.enhancedText]_vars

\* recognition is running and the hook says it listens
ListeningNow == isListening /\ (IF rec = Null THEN FALSE ELSE rec.state = "running")

\* C27: whenever useCaptions is listening (recognition running, isListening
\* true) there is an active session: currentSession is not null.
C27_ListeningHasSession == ListeningNow => currentSession # Null

\* text a is the beginning of text b
StartsWith(b, a) == Len(a) <= Len(b) /\ SubSeq(b, 1, Len(a)) = a

\* the texts of the entries of new extend those of old: the entries of old but
\* the last are there as they were, its last entry is there or was merged into
\* (its whitespace collapsed), and entries may follow
ExtendsTexts(old, new) ==
  /\ Len(old) <= Len(new)
  /\ \A i \in 1..Len(old) :
       IF i < Len(old) THEN new[i].text = old[i].text
       ELSE \/ new[i].text = old[i].text
            \/ StartsWith(new[i].text, CollapseWs(old[i].text))

\* a step of onresult with a final result, of onend or of stopListening
SavingStep ==
  \/ \E raw \in SessionTexts, conf \in Confidences : OnResult(raw, conf, TRUE)
  \/ OnEnd
  \/ StopListening
  \/ \E i \in 1..Len(oldEnds) : OldOnEnd(i)

\* C28: the stored transcript of a session never loses a finalized entry
\* except through clearTranscript or deleteSession: each saveSession performed
\* by onresult, onend or stopListening stores, for its id, a transcript whose
\* texts extend the transcript stored for that id before.
C28_StoredTranscriptOnlyGrows ==
  [][SavingStep =>
       \A id \in DOMAIN store \cap DOMAIN store' :
          ExtendsTexts(store[id].transcript, store'[id].transcript)]_vars

\* C29: the type of an emotional alert matches the direction of the change:
\* an alert of type negative_shift is raised only when the current sentiment's
\* overall is negative, and positive_shift only when it is positive.
C29_AlertTypeMatchesDirection ==
  [][\A i \in 1..Len(sentimentCalls) :
       (ShiftResolved(i) /\ Len(alertsRaised') > Len(alertsRaised)) =>
          LET alert == alertsRaised'[Len(alertsRaised')]
              overall == sentimentCalls[i].sentiment.overall
          IN /\ alert.type = "negative_shift" => overall = "negative"
             /\ alert.type = "positive_shift" => overall = "positive"]_vars

\* C30: the merge reference is consistent with the live transcript: in every
\* reachable state lastFinalRef is either null or equal to the last final
\* entry of the live transcript.
C30_LastFinalRefIsTail ==
  lastFinalRef # Null =>
    /\ Finals(transcript) # <<>>
    /\ lastFinalRef = LastFinalOf(transcript)
====
